---- MODULE Spec2Model ----
(***************************************************************************)
(* PPTX-to-TXT converter (src/app.py).                                     *)
(*                                                                         *)
(* Part I models extract_text_from_pptx: the recursive flattening of the   *)
(* shape tree into absolute coordinates, the placeholder backfill from the *)
(* slide layout and the slide master, the position sort, the text assembly *)
(* and the try/except around all of it.                                    *)
(* Part II models the two upload endpoints and the files they create in    *)
(* the upload folder, with requests served concurrently.                   *)
(*                                                                         *)
(* Strings are sequences of one-character strings, so that str.strip, the  *)
(* header f-string and "\n".join are computed and not assumed.             *)
(***************************************************************************)
EXTENDS Integers, Sequences, FiniteSets, TLC

\* ------------------------------------------------------------------ bounds
MaxSlides == 2
MaxShapes == 2
MaxPh == 2

\* ------------------------------------------------------- the document model
\* A python-pptx shape proxy.  top/left are <<>> for None and <<emu>> otherwise.
\* kind: "group" (shape_type == MSO_SHAPE_TYPE.GROUP), "ph" (is_placeholder),
\* "other".  hasText is hasattr(shape, "text"); shapes is a group's children.
None == <<>>

Shape(kind, top, left, idx, type, hasText, text, shapes) ==
    [kind |-> kind, top |-> top, left |-> left, idx |-> idx, type |-> type,
     hasText |-> hasText, text |-> text, shapes |-> shapes]

TextBox(top, left, text) == Shape("other", top, left, 0, "NONE", TRUE, text, <<>>)
Picture(top, left) == Shape("other", top, left, 0, "NONE", FALSE, <<>>, <<>>)
Group(top, left, shapes) == Shape("group", top, left, 0, "NONE", FALSE, <<>>, shapes)
Placeholder(top, left, idx, type, text) ==
    Shape("ph", top, left, idx, type, TRUE, text, <<>>)
PicturePlaceholder(top, left, idx, type) ==
    Shape("ph", top, left, idx, type, FALSE, <<>>, <<>>)

\* ---------------------------------------------------------- string helpers
Whitespace == {" ", "\n", "\t"}

\* str.strip()
RECURSIVE LStrip(_)
LStrip(s) == IF s # <<>> /\ Head(s) \in Whitespace THEN LStrip(Tail(s)) ELSE s

RECURSIVE RStrip(_)
RStrip(s) ==
    IF s # <<>> /\ s[Len(s)] \in Whitespace THEN RStrip(SubSeq(s, 1, Len(s) - 1)) ELSE s

Strip(s) == RStrip(LStrip(s))

Digit == <<"0", "1", "2", "3", "4", "5", "6", "7", "8", "9">>

\* str(i) for i >= 0
RECURSIVE Str(_)
Str(n) == IF n < 10 THEN <<Digit[n + 1]>> ELSE Str(n \div 10) \o <<Digit[(n % 10) + 1]>>

\* f"=== SLIDE {i} ===\n"
Header(i) ==
    <<"=", "=", "=", " ", "S", "L", "I", "D", "E", " ">> \o Str(i)
        \o <<" ", "=", "=", "=", "\n">>

\* "\n".join(parts)
RECURSIVE Join(_)
Join(parts) ==
    IF parts = <<>> THEN <<>>
    ELSE IF Len(parts) = 1 THEN parts[1]
    ELSE parts[1] \o <<"\n">> \o Join(Tail(parts))

\* ------------------------------------------- get_shapes_with_abs_position
\* shape.top.emu if hasattr(shape, 'top') and shape.top is not None else 0
Emu(x) == IF x = None THEN 0 ELSE x[1]

\* get_shapes_with_abs_position recursing with the parent's offset instead of
\* the group's own absolute position
RECURSIVE FlattenParentOffset(_, _, _)
FlattenParentOffset(shapes, parent_top, parent_left) ==
    IF shapes = <<>> THEN <<>>
    ELSE LET shape == Head(shapes)
             abs_top == parent_top + Emu(shape.top)
             abs_left == parent_left + Emu(shape.left)
             here == IF shape.kind = "group"
                     THEN FlattenParentOffset(shape.shapes, parent_top, parent_left)
                     ELSE <<[shape |-> shape, top |-> abs_top, left |-> abs_left]>>
         IN here \o FlattenParentOffset(Tail(shapes), parent_top, parent_left)

RECURSIVE get_shapes_with_abs_position(_, _, _)
get_shapes_with_abs_position(shapes, parent_top, parent_left) ==
    IF shapes = <<>> THEN <<>>
    ELSE LET shape == Head(shapes)
             abs_top == parent_top + Emu(shape.top)
             abs_left == parent_left + Emu(shape.left)
             here == IF shape.kind = "group"
                     THEN get_shapes_with_abs_position(shape.shapes, abs_top, abs_left)
                     ELSE <<[shape |-> shape, top |-> abs_top, left |-> abs_left]>>
         IN here \o get_shapes_with_abs_position(Tail(shapes), parent_top, parent_left)

\* Each info dict is a distinct Python object; id stands for its identity, the
\* position at which it was appended to all_shape_infos, and src remembers the
\* loop that appended it ("slide", "layout" or "master").
Info(shape, top, left, id, src) ==
    [shape |-> shape, top |-> top, left |-> left, id |-> id, src |-> src]

Identified(recs) ==
    [k \in 1..Len(recs) |-> Info(recs[k].shape, recs[k].top, recs[k].left, k, "slide")]

\* The covered set of lines 55-59 left empty
NoPlaceholderIdxs(infos) == {}

\* {info['shape'].placeholder_format.idx for info in infos if info['shape'].is_placeholder}
PlaceholderIdxs(infos) ==
    {infos[k].shape.idx : k \in {j \in 1..Len(infos) : infos[j].shape.kind = "ph"}}

\* ------------------------------------------------------ placeholder backfill
\* The layout loop without line 65 (the covered set is not updated)
RECURSIVE BackfillLayoutNoAdd(_, _, _)
BackfillLayoutNoAdd(placeholders, infos, idxs) ==
    IF placeholders = <<>> THEN [infos |-> infos, idxs |-> idxs]
    ELSE LET shape == Head(placeholders)
         IN IF shape.idx \notin idxs
            THEN BackfillLayoutNoAdd(Tail(placeholders),
                     Append(infos, Info(shape, Emu(shape.top), Emu(shape.left),
                                        Len(infos) + 1, "layout")),
                     idxs)
            ELSE BackfillLayoutNoAdd(Tail(placeholders), infos, idxs)

\* for shape in slide.slide_layout.placeholders: ... (lines 60-65)
RECURSIVE BackfillLayout(_, _, _)
BackfillLayout(placeholders, infos, idxs) ==
    IF placeholders = <<>> THEN [infos |-> infos, idxs |-> idxs]
    ELSE LET shape == Head(placeholders)
         IN IF shape.idx \notin idxs
            THEN BackfillLayout(Tail(placeholders),
                     Append(infos, Info(shape, Emu(shape.top), Emu(shape.left),
                                        Len(infos) + 1, "layout")),
                     idxs \cup {shape.idx})
            ELSE BackfillLayout(Tail(placeholders), infos, idxs)

\* The master loop without the test of line 67
RECURSIVE BackfillMasterNoCheck(_, _, _)
BackfillMasterNoCheck(placeholders, infos, idxs) ==
    IF placeholders = <<>> THEN infos
    ELSE LET shape == Head(placeholders)
         IN BackfillMasterNoCheck(Tail(placeholders),
                Append(infos, Info(shape, Emu(shape.top), Emu(shape.left),
                                   Len(infos) + 1, "master")),
                idxs)

\* for shape in slide.slide_layout.slide_master.placeholders: ... (lines 66-70);
\* the set of covered indices is read and never updated here.
RECURSIVE BackfillMaster(_, _, _)
BackfillMaster(placeholders, infos, idxs) ==
    IF placeholders = <<>> THEN infos
    ELSE LET shape == Head(placeholders)
         IN IF shape.idx \notin idxs
            THEN BackfillMaster(Tail(placeholders),
                     Append(infos, Info(shape, Emu(shape.top), Emu(shape.left),
                                        Len(infos) + 1, "master")),
                     idxs)
            ELSE BackfillMaster(Tail(placeholders), infos, idxs)

\* ------------------------------------------------------------ filter and sort
\* [info for info in all_shape_infos if hasattr(info['shape'], "text")]
HasTextAttr(info) == info.shape.hasText

TextShapeInfos(infos) == SelectSeq(infos, HasTextAttr)

\* The sort key with its two components swapped: (left, top)
KeyLELeftFirst(a, b) == a.left < b.left \/ (a.left = b.left /\ a.top <= b.top)

\* (a['top'], a['left']) <= (b['top'], b['left']), Python tuple comparison
KeyLE(a, b) == a.top < b.top \/ (a.top = b.top /\ a.left <= b.left)

\* An unstable insertion: x goes before the elements whose key equals its own
InsertSortedUnstable(s, x) ==
    LET k == Cardinality({j \in 1..Len(s) : KeyLE(s[j], x) /\ ~KeyLE(x, s[j])})
    IN SubSeq(s, 1, k) \o <<x>> \o SubSeq(s, k + 1, Len(s))

\* sorted() is stable: x goes after every element whose key is <= its own.
InsertSorted(s, x) ==
    LET k == Cardinality({j \in 1..Len(s) : KeyLE(s[j], x)})
    IN SubSeq(s, 1, k) \o <<x>> \o SubSeq(s, k + 1, Len(s))

RECURSIVE Sorted(_)
Sorted(s) ==
    IF s = <<>> THEN <<>>
    ELSE InsertSorted(Sorted(SubSeq(s, 1, Len(s) - 1)), s[Len(s)])

\* ------------------------------------------------------------- text assembly
\* The two branches of lines 76-79 in the other order: stored text first
ShapeTextStoredFirst(shape, i) ==
    IF shape.hasText THEN Strip(shape.text)
    ELSE IF shape.kind = "ph" /\ shape.type = "SLIDE_NUMBER" THEN Str(i)
    ELSE <<>>

\* lines 74-79: the text one sorted info contributes on slide i
ShapeText(shape, i) ==
    IF shape.kind = "ph" /\ shape.type = "SLIDE_NUMBER" THEN Str(i)
    ELSE IF shape.hasText THEN Strip(shape.text)
    ELSE <<>>

\* lines 73-81: the loop over sorted_shape_infos; lines records which info
\* produced which emitted text.
RECURSIVE EmitLoop(_, _, _)
EmitLoop(infos, i, acc) ==
    IF infos = <<>> THEN acc
    ELSE LET text == ShapeText(Head(infos).shape, i)
         IN IF text # <<>>
            THEN EmitLoop(Tail(infos), i,
                     [slide_text |-> acc.slide_text \o text \o <<"\n">>,
                      lines |-> Append(acc.lines, [id |-> Head(infos).id, text |-> text])])
            ELSE EmitLoop(Tail(infos), i, acc)

\* ------------------------------------------------------------ input documents
\* Shapes a slide is built from: text boxes whose document order differs from
\* their position order, a whitespace-only box, pictures, groups (one of them
\* nested two deep), and placeholders with and without a text attribute.
TopShapes ==
    { TextBox(<<0>>, <<1>>, <<"a">>),
      TextBox(<<1>>, <<0>>, <<" ", "b", " ">>),
      Group(<<0>>, None, <<TextBox(None, <<1>>, <<"b">>), Picture(<<-1>>, <<0>>),
                           TextBox(<<1>>, <<0>>, <<" ", "\n">>)>>),
      Group(<<100>>, <<100>>, <<Group(<<10>>, <<10>>, <<TextBox(<<5>>, <<5>>, <<"c">>)>>)>>),
      Placeholder(<<1>>, <<1>>, 0, "SLIDE_NUMBER", <<"x">>),
      Placeholder(None, None, 1, "BODY", <<"b">>),
      PicturePlaceholder(<<0>>, <<0>>, 0, "SLIDE_NUMBER") }

LayoutPlaceholders ==
    { Placeholder(<<0>>, <<1>>, 0, "TITLE", <<"t">>),
      Placeholder(<<-1>>, <<0>>, 1, "SLIDE_NUMBER", <<" ">>) }

MasterPlaceholders ==
    { Placeholder(<<1>>, <<1>>, 0, "SLIDE_NUMBER", <<>>),
      Placeholder(<<0>>, <<1>>, 1, "BODY", <<"m", "\n">>) }

SeqsUpTo(S, n) == UNION {[1..k -> S] : k \in 0..n}

Slide(shapes, layout, master) == [shapes |-> shapes, layout |-> layout, master |-> master]

\* Every one-slide document over the shapes above.
Slides ==
    { Slide(sh, la, ma) : sh \in SeqsUpTo(TopShapes, MaxShapes),
                          la \in SeqsUpTo(LayoutPlaceholders, MaxPh),
                          ma \in SeqsUpTo(MasterPlaceholders, MaxPh) }

\* Slides of the multi-slide decks: the two slides of the end-to-end example
\* and slides whose slide-number placeholder sits on the slide, the layout or
\* the master.
DeckSlides ==
    { Slide(<<TextBox(<<0>>, <<0>>, <<"I", "n", "t", "r", "o">>),
              TextBox(<<50>>, <<0>>, <<"W", "e", "l", "c", "o", "m", "e">>)>>, <<>>, <<>>),
      Slide(<<>>, <<>>, <<Placeholder(<<90>>, <<90>>, 4, "SLIDE_NUMBER", <<"#">>)>>),
      Slide(<<Placeholder(<<1>>, <<0>>, 4, "SLIDE_NUMBER", <<" ">>)>>,
            <<Placeholder(<<0>>, <<0>>, 4, "SLIDE_NUMBER", <<"9">>)>>, <<>>),
      Slide(<<PicturePlaceholder(<<0>>, <<0>>, 4, "SLIDE_NUMBER")>>,
            <<Placeholder(<<0>>, <<0>>, 0, "TITLE", <<"t">>)>>, <<>>),
      Slide(<<TextBox(None, None, <<" ">>)>>,
            <<Placeholder(<<2>>, <<0>>, 4, "SLIDE_NUMBER", <<>>)>>,
            <<Placeholder(<<0>>, <<0>>, 4, "SLIDE_NUMBER", <<"1">>)>>) }

\* str(e) of what Presentation() or the traversal can raise
Causes == {"Package not found", "KeyError"}

\* ------------------------------------------------------------------- state
VARIABLES
    pc,                     \* position in extract_text_from_pptx
    nslides,                \* len(presentation.slides)
    i,                      \* the loop index of line 52
    slide,                  \* the slide of the current iteration
    all_shape_infos,
    added_placeholder_idxs,
    sorted_shape_infos,
    slide_text,
    lines,                  \* which info produced which line of slide_text
    text_content,
    result,                 \* the returned string, <<>> while nothing is returned
    returned,               \* TRUE once the function has returned a value
    error                   \* the message of the raised exception, <<>> if none

xvars == <<pc, nslides, i, slide, all_shape_infos, added_placeholder_idxs,
           sorted_shape_infos, slide_text, lines, text_content, result, returned, error>>

\* The upload folder and the requests of Part II.
VARIABLES
    files,      \* the upload folder: file name -> [creator, content]; creator is
                \* the request that wrote the file, content the request whose
                \* upload the bytes come from
    rpc,        \* each request's position in its handler
    endpoint,   \* "text" (convert_pptx_to_text) or "pdf" (convert_pptx_to_pdf)
    filepath,   \* os.path.join(UPLOAD_FOLDER, filename)
    readFrom,   \* whose upload the request's processing read, 0 if none
    status      \* the HTTP status of the response, 0 while there is none

hvars == <<files, rpc, endpoint, filepath, readFrom, status>>

vars == <<xvars, hvars>>

NoSlide == Slide(<<>>, <<>>, <<>>)

XInit ==
    /\ pc = "parse"
    /\ nslides = 0
    /\ i = 1
    /\ slide = NoSlide
    /\ all_shape_infos = <<>>
    /\ added_placeholder_idxs = {}
    /\ sorted_shape_infos = <<>>
    /\ slide_text = <<>>
    /\ lines = <<>>
    /\ text_content = <<>>
    /\ result = <<>>
    /\ returned = FALSE
    /\ error = <<>>

\* line 36: presentation = Presentation(file_path); line 37
Parse(maxSlides) ==
    /\ pc = "parse"
    /\ \E n \in 0..maxSlides : nslides' = n
    /\ pc' = "loop"
    /\ UNCHANGED <<hvars, i, slide, all_shape_infos, added_placeholder_idxs,
                   sorted_shape_infos, slide_text, lines, text_content, result,
                   returned, error>>

\* lines 52-59: the next slide, its header, its flattened shapes and the
\* placeholder indices they cover
Flatten(pool) ==
    /\ pc = "loop"
    /\ i <= nslides
    /\ \E s \in pool :
         LET infos == Identified(get_shapes_with_abs_position(s.shapes, 0, 0))
         IN /\ slide' = s
            /\ all_shape_infos' = infos
            /\ added_placeholder_idxs' = PlaceholderIdxs(infos)
    /\ slide_text' = Header(i)
    /\ lines' = <<>>
    /\ pc' = "layout"
    /\ UNCHANGED <<hvars, nslides, i, sorted_shape_infos, text_content, result,
                   returned, error>>

\* lines 60-65
LayoutBackfill ==
    /\ pc = "layout"
    /\ LET r == BackfillLayout(slide.layout, all_shape_infos, added_placeholder_idxs)
       IN /\ all_shape_infos' = r.infos
          /\ added_placeholder_idxs' = r.idxs
    /\ pc' = "master"
    /\ UNCHANGED <<hvars, nslides, i, slide, sorted_shape_infos, slide_text, lines,
                   text_content, result, returned, error>>

\* lines 66-70
MasterBackfill ==
    /\ pc = "master"
    /\ all_shape_infos' =
           BackfillMaster(slide.master, all_shape_infos, added_placeholder_idxs)
    /\ pc' = "sort"
    /\ UNCHANGED <<hvars, nslides, i, slide, added_placeholder_idxs, sorted_shape_infos,
                   slide_text, lines, text_content, result, returned, error>>

\* lines 71-72
FilterSort ==
    /\ pc = "sort"
    /\ sorted_shape_infos' = Sorted(TextShapeInfos(all_shape_infos))
    /\ pc' = "emit"
    /\ UNCHANGED <<hvars, nslides, i, slide, all_shape_infos, added_placeholder_idxs,
                   slide_text, lines, text_content, result, returned, error>>

\* lines 73-82, and the loop's step to the next slide
Emit ==
    /\ pc = "emit"
    /\ LET r == EmitLoop(sorted_shape_infos, i, [slide_text |-> slide_text, lines |-> <<>>])
       IN /\ slide_text' = r.slide_text
          /\ lines' = r.lines
          /\ text_content' = Append(text_content, r.slide_text)
    /\ i' = i + 1
    /\ pc' = "loop"
    /\ UNCHANGED <<hvars, nslides, slide, all_shape_infos, added_placeholder_idxs,
                   sorted_shape_infos, result, returned, error>>

\* line 83
ReturnValue(parts) == Join(parts)

Return ==
    /\ pc = "loop"
    /\ i > nslides
    /\ result' = ReturnValue(text_content)
    /\ returned' = TRUE
    /\ pc' = "done"
    /\ UNCHANGED <<hvars, nslides, i, slide, all_shape_infos, added_placeholder_idxs,
                   sorted_shape_infos, slide_text, lines, text_content, error>>

\* lines 84-85: whatever was built so far is dropped with the frame
ExceptionMessage(cause) == <<"Error processing PowerPoint file: ", cause>>

\* An except branch that hands back what was built so far
RaisedResultPartial(parts) == Join(parts)

RaisedResult(parts) == <<>>

Raise ==
    /\ pc \in {"parse", "loop", "layout", "master", "sort", "emit"}
    /\ \E cause \in Causes : error' = ExceptionMessage(cause)
    /\ result' = RaisedResult(text_content)
    /\ returned' = (RaisedResult(text_content) # <<>>)
    /\ pc' = "raised"
    /\ UNCHANGED <<hvars, nslides, i, slide, all_shape_infos, added_placeholder_idxs,
                   sorted_shape_infos, slide_text, lines, text_content>>

\* =========================================================================
\* Part II: the upload endpoints and the upload folder
\* =========================================================================
NumRequests == 2

Requests == 1..NumRequests

\* request.files['file'].filename as the client sent it
RawNames ==
    { <<"a", " ", "b", ".", "p", "p", "t", "x">>,
      <<"a", "_", "b", ".", "p", "p", "t", "x">>,
      <<"a", "_", "b", ".", "P", "P", "T">>,
      <<"n", ".", "t", "x", "t">>,
      <<>> }

\* line 14
ALLOWED_EXTENSIONS == {<<"p", "p", "t", "x">>, <<"p", "p", "t">>}

\* the index of the last "." of s, 0 if there is none
LastDot(s) ==
    LET dots == {k \in 1..Len(s) : s[k] = "."}
    IN IF dots = {} THEN 0 ELSE CHOOSE k \in dots : \A j \in dots : j <= k

\* str.lower() on the letters that occur in RawNames
LowerChar(c) == IF c = "P" THEN "p" ELSE IF c = "T" THEN "t" ELSE c
Lower(s) == [k \in 1..Len(s) |-> LowerChar(s[k])]

\* lines 25-28
allowed_file(filename) ==
    /\ LastDot(filename) # 0
    /\ Lower(SubSeq(filename, LastDot(filename) + 1, Len(filename))) \in ALLOWED_EXTENSIONS

\* werkzeug's secure_filename as called at lines 100 and 119:
\* "_".join(filename.split()), then every character outside [A-Za-z0-9_.-]
\* dropped, then .strip("._")
RECURSIVE JoinWords(_)
JoinWords(s) ==
    LET t == LStrip(s)
    IN IF t = <<>> THEN <<>>
       ELSE LET ws == {k \in 1..Len(t) : t[k] \in Whitespace}
                cut == IF ws = {} THEN Len(t) + 1
                       ELSE CHOOSE k \in ws : \A j \in ws : k <= j
                rest == JoinWords(SubSeq(t, cut, Len(t)))
            IN SubSeq(t, 1, cut - 1) \o (IF rest = <<>> THEN <<>> ELSE <<"_">> \o rest)

FilenameChars == {"a", "b", "n", "p", "t", "x", "P", "T", "_", ".", "-"}

IsFilenameChar(c) == c \in FilenameChars

RECURSIVE StripDots(_)
StripDots(s) ==
    IF s # <<>> /\ Head(s) \in {".", "_"} THEN StripDots(Tail(s))
    ELSE IF s # <<>> /\ s[Len(s)] \in {".", "_"} THEN StripDots(SubSeq(s, 1, Len(s) - 1))
    ELSE s

secure_filename(filename) == StripDots(SelectSeq(JoinWords(filename), IsFilenameChar))

\* line 121: filename.rsplit('.', 1)[0] + '.pdf'; soffice names its output
\* after the input's base name in the same way
PdfFilename(filename) ==
    (IF LastDot(filename) = 0 THEN filename ELSE SubSeq(filename, 1, LastDot(filename) - 1))
        \o <<".", "p", "d", "f">>

HInit ==
    /\ files = <<>>
    /\ rpc = [r \in Requests |-> "idle"]
    /\ endpoint = [r \in Requests |-> "none"]
    /\ filepath = [r \in Requests |-> <<>>]
    /\ readFrom = [r \in Requests |-> 0]
    /\ status = [r \in Requests |-> 0]

Exists(path) == path \in DOMAIN files

WriteFile(path, creator, content) ==
    [q \in DOMAIN files \cup {path} |->
        IF q = path THEN [creator |-> creator, content |-> content] ELSE files[q]]

RemoveFile(path) == [q \in DOMAIN files \ {path} |-> files[q]]

pdf_filepath(r) == PdfFilename(filepath[r])

\* lines 95-101 and 114-122: validation, before anything touches the folder
HStart(r) ==
    /\ rpc[r] = "idle"
    /\ \E ep \in {"text", "pdf"}, hasFile \in BOOLEAN, name \in RawNames :
         /\ endpoint' = [endpoint EXCEPT ![r] = ep]
         /\ IF ~hasFile \/ name = <<>> \/ ~allowed_file(name)
            THEN /\ status' = [status EXCEPT ![r] = 400]
                 /\ rpc' = [rpc EXCEPT ![r] = "done"]
                 /\ UNCHANGED filepath
            ELSE /\ filepath' = [filepath EXCEPT ![r] = secure_filename(name)]
                 /\ rpc' = [rpc EXCEPT ![r] = "save"]
                 /\ UNCHANGED status
    /\ UNCHANGED <<files, readFrom, xvars>>

\* lines 103 and 124: file.save(filepath)
HSave(r) ==
    /\ rpc[r] = "save"
    /\ \/ /\ files' = WriteFile(filepath[r], r, r)
          /\ rpc' = [rpc EXCEPT ![r] = IF endpoint[r] = "text" THEN "extract" ELSE "convert"]
          /\ UNCHANGED status
       \/ \* the save raises, with or without a file left behind
          /\ \E written \in BOOLEAN :
                files' = IF written THEN WriteFile(filepath[r], r, r) ELSE files
          /\ status' = [status EXCEPT ![r] = 500]
          /\ rpc' = [rpc EXCEPT ![r] = "finally"]
    /\ UNCHANGED <<endpoint, filepath, readFrom, xvars>>

\* lines 104-107: extract_text_from_pptx(filepath) and the response
HExtract(r) ==
    /\ rpc[r] = "extract"
    /\ IF Exists(filepath[r])
       THEN /\ readFrom' = [readFrom EXCEPT ![r] = files[filepath[r]].content]
            /\ \E ok \in BOOLEAN : status' = [status EXCEPT ![r] = IF ok THEN 200 ELSE 500]
       ELSE /\ status' = [status EXCEPT ![r] = 500]
            /\ UNCHANGED readFrom
    /\ rpc' = [rpc EXCEPT ![r] = "finally"]
    /\ UNCHANGED <<files, endpoint, filepath, xvars>>

\* lines 125-128: soffice reads filepath and writes the PDF beside it
HConvert(r) ==
    /\ rpc[r] = "convert"
    /\ IF Exists(filepath[r])
       THEN /\ readFrom' = [readFrom EXCEPT ![r] = files[filepath[r]].content]
            /\ \/ \* exit status 0
                  /\ \E written \in BOOLEAN :
                        files' = IF written
                                 THEN WriteFile(pdf_filepath(r), r, files[filepath[r]].content)
                                 ELSE files
                  /\ rpc' = [rpc EXCEPT ![r] = "check"]
                  /\ UNCHANGED status
               \/ \* CalledProcessError or TimeoutExpired
                  /\ \E written \in BOOLEAN :
                        files' = IF written
                                 THEN WriteFile(pdf_filepath(r), r, files[filepath[r]].content)
                                 ELSE files
                  /\ status' = [status EXCEPT ![r] = 500]
                  /\ rpc' = [rpc EXCEPT ![r] = "finally"]
       ELSE /\ status' = [status EXCEPT ![r] = 500]
            /\ rpc' = [rpc EXCEPT ![r] = "finally"]
            /\ UNCHANGED <<files, readFrom>>
    /\ UNCHANGED <<endpoint, filepath, xvars>>

\* lines 129-132
HCheck(r) ==
    /\ rpc[r] = "check"
    /\ status' = [status EXCEPT ![r] = IF Exists(pdf_filepath(r)) THEN 200 ELSE 500]
    /\ rpc' = [rpc EXCEPT ![r] = "finally"]
    /\ UNCHANGED <<files, endpoint, filepath, readFrom, xvars>>

AfterUpload(r) == IF endpoint[r] = "text" THEN "done" ELSE "finally_pdf"

\* lines 109 and 138: if os.path.exists(filepath)
HFinally(r) ==
    /\ rpc[r] = "finally"
    /\ rpc' = [rpc EXCEPT ![r] = IF Exists(filepath[r]) THEN "remove" ELSE AfterUpload(r)]
    /\ UNCHANGED <<files, endpoint, filepath, readFrom, status, xvars>>

\* lines 110 and 139: os.remove(filepath); FileNotFoundError leaves the
\* finally block at once
HRemove(r) ==
    /\ rpc[r] = "remove"
    /\ IF Exists(filepath[r])
       THEN /\ files' = RemoveFile(filepath[r])
            /\ rpc' = [rpc EXCEPT ![r] = AfterUpload(r)]
            /\ UNCHANGED status
       ELSE /\ status' = [status EXCEPT ![r] = 500]
            /\ rpc' = [rpc EXCEPT ![r] = "done"]
            /\ UNCHANGED files
    /\ UNCHANGED <<endpoint, filepath, readFrom, xvars>>

\* line 140: if os.path.exists(pdf_filepath)
HFinallyPdf(r) ==
    /\ rpc[r] = "finally_pdf"
    /\ rpc' = [rpc EXCEPT ![r] = IF Exists(pdf_filepath(r)) THEN "remove_pdf" ELSE "done"]
    /\ UNCHANGED <<files, endpoint, filepath, readFrom, status, xvars>>

\* line 141: os.remove(pdf_filepath)
HRemovePdf(r) ==
    /\ rpc[r] = "remove_pdf"
    /\ IF Exists(pdf_filepath(r))
       THEN /\ files' = RemoveFile(pdf_filepath(r))
            /\ UNCHANGED status
       ELSE /\ status' = [status EXCEPT ![r] = 500]
            /\ UNCHANGED files
    /\ rpc' = [rpc EXCEPT ![r] = "done"]
    /\ UNCHANGED <<endpoint, filepath, readFrom, xvars>>

\* The development server serves each request on its own thread.
HttpNext ==
    \E r \in Requests :
        \/ HStart(r)
        \/ HSave(r)
        \/ HExtract(r)
        \/ HConvert(r)
        \/ HCheck(r)
        \/ HFinally(r)
        \/ HRemove(r)
        \/ HFinallyPdf(r)
        \/ HRemovePdf(r)

\* A deck of up to MaxSlides slides.
Init == XInit /\ HInit

Next ==
    \/ Parse(MaxSlides)
    \/ Flatten(DeckSlides)
    \/ LayoutBackfill
    \/ MasterBackfill
    \/ FilterSort
    \/ Emit
    \/ Return
    \/ Raise

Spec == Init /\ [][Next]_vars

\* A one-slide document over every combination of the shapes above.
ParseOne == Parse(1)

NextSlide ==
    \/ ParseOne
    \/ Flatten(Slides)
    \/ LayoutBackfill
    \/ MasterBackfill
    \/ FilterSort
    \/ Emit
    \/ Return
    \/ Raise

SlideSpec == Init /\ [][NextSlide]_vars

\* Concurrent requests against the two endpoints.
HttpSpec == Init /\ [][HttpNext]_vars

\* =========================================================================
\* Properties of extract_text_from_pptx
\* =========================================================================

\* The slide's shape tree read directly, without the recursion of
\* get_shapes_with_abs_position: the paths from the slide to its non-group
\* shapes, the shape at a path and the offsets summed along a path.
RECURSIVE LeafPaths(_)
LeafPaths(shapes) ==
    UNION { IF shapes[k].kind = "group"
            THEN {<<k>> \o q : q \in LeafPaths(shapes[k].shapes)}
            ELSE {<<k>>} : k \in 1..Len(shapes) }

RECURSIVE ShapeAt(_, _)
ShapeAt(shapes, p) ==
    IF Len(p) = 1 THEN shapes[p[1]] ELSE ShapeAt(shapes[p[1]].shapes, Tail(p))

RECURSIVE SumTop(_, _)
SumTop(shapes, p) ==
    LET s == shapes[p[1]]
    IN (IF s.top = <<>> THEN 0 ELSE s.top[1])
         + (IF Len(p) = 1 THEN 0 ELSE SumTop(s.shapes, Tail(p)))

RECURSIVE SumLeft(_, _)
SumLeft(shapes, p) ==
    LET s == shapes[p[1]]
    IN (IF s.left = <<>> THEN 0 ELSE s.left[1])
         + (IF Len(p) = 1 THEN 0 ELSE SumLeft(s.shapes, Tail(p)))

\* p comes before q in a pre-order walk (no leaf path is a prefix of another)
PathBefore(p, q) ==
    \E k \in 1..Len(p) :
        /\ k <= Len(q)
        /\ p[k] < q[k]
        /\ \A j \in 1..(k - 1) : p[j] = q[j]

PreorderRank(P, p) == 1 + Cardinality({q \in P : PathBefore(q, p)})

SlideIdxs ==
    {ShapeAt(slide.shapes, p).idx :
        p \in {q \in LeafPaths(slide.shapes) : ShapeAt(slide.shapes, q).kind = "ph"}}
LayoutIdxs == {slide.layout[k].idx : k \in 1..Len(slide.layout)}
MasterIdxs == {slide.master[k].idx : k \in 1..Len(slide.master)}

IsSlideNumber(shape) == shape.kind = "ph" /\ shape.type = "SLIDE_NUMBER"

\* the candidate records that are placeholders with index k
CandidatesWithIdx(k) ==
    {j \in 1..Len(all_shape_infos) :
        all_shape_infos[j].shape.kind = "ph" /\ all_shape_infos[j].shape.idx = k}

\* the emitted lines whose source is a placeholder with index k
LinesWithIdx(k) ==
    {l \in 1..Len(lines) :
        /\ all_shape_infos[lines[l].id].shape.kind = "ph"
        /\ all_shape_infos[lines[l].id].shape.idx = k}

LinesOf(j) == {l \in 1..Len(lines) : lines[l].id = j}

\* both backfill loops have run for the current slide
Backfilled == pc \in {"sort", "emit"}
\* the current slide's block has just been appended to text_content
SlideEmitted == pc = "loop" /\ Len(text_content) >= 1
\* the 1-based index of the slide whose block was appended last
SlideNo == Len(text_content)

\* C1: the lines emitted for a slide are in ascending (absolute top, absolute
\* left) order of the shapes that produced them: for every pair of lines the
\* earlier one's top is smaller, or the tops are equal and its left is <=.
C1_Ordering ==
    SlideEmitted =>
        \A j, k \in 1..Len(lines) :
            j < k =>
                LET a == all_shape_infos[lines[j].id]
                    b == all_shape_infos[lines[k].id]
                IN a.top < b.top \/ (a.top = b.top /\ a.left <= b.left)

\* two lines whose document order is the reverse of their emitted order, on
\* one row (equal tops, different lefts)
C1_Witness ==
    /\ SlideEmitted
    /\ \E j, k \in 1..Len(lines) :
          /\ j < k
          /\ lines[j].id > lines[k].id
          /\ all_shape_infos[lines[j].id].top = all_shape_infos[lines[k].id].top
          /\ all_shape_infos[lines[j].id].left < all_shape_infos[lines[k].id].left
    /\ \E j, k \in 1..Len(lines) :
          /\ j < k
          /\ all_shape_infos[lines[j].id].top < all_shape_infos[lines[k].id].top
          /\ all_shape_infos[lines[j].id].left > all_shape_infos[lines[k].id].left

\* C2: after the backfill, every placeholder index that the layout or the
\* master defines and that no placeholder of the slide supplies appears exactly
\* once among the candidate records.
C2_ExactlyOnce ==
    Backfilled =>
        \A k \in (LayoutIdxs \cup MasterIdxs) \ SlideIdxs :
            Cardinality(CandidatesWithIdx(k)) = 1

\* C3: no placeholder index contributes more than one line to a slide's block.
C3_NoDuplicateLine ==
    SlideEmitted =>
        \A k \in SlideIdxs \cup LayoutIdxs \cup MasterIdxs :
            Cardinality(LinesWithIdx(k)) <= 1

\* how many placeholders of the slide, and of the master, carry index k
SlideCount(k) ==
    Cardinality({p \in LeafPaths(slide.shapes) :
        ShapeAt(slide.shapes, p).kind = "ph" /\ ShapeAt(slide.shapes, p).idx = k})
MasterCount(k) == Cardinality({m \in 1..Len(slide.master) : slide.master[m].idx = k})

\* C2 amended: an index that the slide does not supply appears exactly once
\* among the candidates when the layout defines it, or when the master carries
\* it on one placeholder only; an index that only the master defines appears
\* once for each master placeholder that carries it.
C2_OncePerLayoutOrMasterPlaceholder ==
    Backfilled =>
        \A k \in (LayoutIdxs \cup MasterIdxs) \ SlideIdxs :
            /\ (k \in LayoutIdxs \/ MasterCount(k) = 1) =>
                   Cardinality(CandidatesWithIdx(k)) = 1
            /\ k \notin LayoutIdxs => Cardinality(CandidatesWithIdx(k)) = MasterCount(k)

\* both layout (twice) and master define an index the slide lacks, the master
\* alone defines another one, and each is a candidate once
C2_Witness ==
    /\ Backfilled
    /\ \E k \in (LayoutIdxs \cap MasterIdxs) \ SlideIdxs :
          /\ Cardinality({m \in 1..Len(slide.layout) : slide.layout[m].idx = k}) = 2
          /\ Cardinality(CandidatesWithIdx(k)) = 1
    /\ \E k \in MasterIdxs \ (LayoutIdxs \cup SlideIdxs) :
          Cardinality(CandidatesWithIdx(k)) = 1

\* C3 amended: an index contributes at most one line when the slide's own
\* placeholders and the master's placeholders each carry it at most once; in
\* general the lines of an index all come from the first source that carries
\* it (slide, else layout, else master), one per placeholder of the slide, one
\* for the layout, one per placeholder of the master.
C3_NoDuplicateAcrossSources ==
    SlideEmitted =>
        \A k \in SlideIdxs \cup LayoutIdxs \cup MasterIdxs :
            /\ (SlideCount(k) <= 1 /\ MasterCount(k) <= 1) =>
                   Cardinality(LinesWithIdx(k)) <= 1
            /\ Cardinality(LinesWithIdx(k)) <=
                   (IF k \in SlideIdxs THEN SlideCount(k)
                    ELSE IF k \in LayoutIdxs THEN 1 ELSE MasterCount(k))
            /\ \A l, m \in LinesWithIdx(k) :
                   all_shape_infos[lines[l].id].src = all_shape_infos[lines[m].id].src

\* slide, layout and master all carry one index, and it produced one line
C3_Witness ==
    /\ SlideEmitted
    /\ \E k \in SlideIdxs \cap LayoutIdxs \cap MasterIdxs :
          /\ Cardinality(LinesWithIdx(k)) = 1
          /\ \E q \in (LayoutIdxs \cap MasterIdxs) \ SlideIdxs :
                Cardinality(LinesWithIdx(q)) = 1

\* C4: flattening from offset (0,0) yields one record per non-group shape of
\* the tree, in pre-order, none for a group, and each record's top/left is the
\* sum of the shape's own offset and its ancestor groups' offsets (None
\* counting as 0); the shape at (5,5) in a group at (10,10) in a group at
\* (100,100) gets (115,115).
C4_Flatten ==
    pc = "layout" =>
        LET P == LeafPaths(slide.shapes)
        IN /\ Len(all_shape_infos) = Cardinality(P)
           /\ \A j \in 1..Len(all_shape_infos) : all_shape_infos[j].shape.kind # "group"
           /\ \A p \in P :
                 LET r == all_shape_infos[PreorderRank(P, p)]
                 IN /\ r.shape = ShapeAt(slide.shapes, p)
                    /\ r.top = SumTop(slide.shapes, p)
                    /\ r.left = SumLeft(slide.shapes, p)
                    /\ (/\ Len(p) = 3
                        /\ slide.shapes[p[1]].top = <<100>> /\ slide.shapes[p[1]].left = <<100>>
                        /\ slide.shapes[p[1]].shapes[p[2]].top = <<10>>
                        /\ slide.shapes[p[1]].shapes[p[2]].left = <<10>>
                        /\ r.shape.top = <<5>> /\ r.shape.left = <<5>>)
                       => (r.top = 115 /\ r.left = 115)

\* the slide holds the doubly nested shape and a group with a None offset
C4_Witness ==
    /\ pc = "layout"
    /\ \E j \in 1..Len(all_shape_infos) :
          all_shape_infos[j].top = 115 /\ all_shape_infos[j].left = 115
    /\ \E j \in 1..Len(all_shape_infos) :
          all_shape_infos[j].shape.top = <<>> /\ all_shape_infos[j].left = 1
    /\ Len(all_shape_infos) > Len(slide.shapes)

\* C5 as stated: every candidate slide-number placeholder, wherever it comes
\* from, contributes exactly the decimal string of the slide's index as its line.
C5_EverySlideNumber ==
    SlideEmitted =>
        \A j \in 1..Len(all_shape_infos) :
            IsSlideNumber(all_shape_infos[j].shape) =>
                /\ Cardinality(LinesOf(j)) = 1
                /\ \A l \in LinesOf(j) : lines[l].text = Str(SlideNo)

\* C5 amended: every candidate slide-number placeholder that has a text
\* attribute contributes exactly the decimal string of the slide's index,
\* whatever text it stores; one without a text attribute is filtered out at
\* line 71 and contributes no line.
C5_TextCapableSlideNumber ==
    SlideEmitted =>
        \A j \in 1..Len(all_shape_infos) :
            IsSlideNumber(all_shape_infos[j].shape) =>
                IF all_shape_infos[j].shape.hasText
                THEN /\ Cardinality(LinesOf(j)) = 1
                     /\ \A l \in LinesOf(j) : lines[l].text = Str(SlideNo)
                ELSE LinesOf(j) = {}

\* on slide 2 a backfilled slide-number placeholder storing no visible text
\* has produced the line "2"
C5_Witness ==
    /\ SlideEmitted
    /\ SlideNo = 2
    /\ \E j \in 1..Len(all_shape_infos) :
          /\ IsSlideNumber(all_shape_infos[j].shape)
          /\ all_shape_infos[j].src # "slide"
          /\ all_shape_infos[j].shape.hasText
          /\ Strip(all_shape_infos[j].shape.text) = <<>>
          /\ \E l \in LinesOf(j) : lines[l].text = <<"2">>

\* s occurs in t as a contiguous run of characters
Occurs(s, t) == \E k \in 0..(Len(t) - Len(s)) : SubSeq(t, k + 1, k + Len(s)) = s

\* C6: the call never partially succeeds.  When it raises, wherever the
\* failure happened, there is one error that carries the cause's description
\* and no text is returned; when it returns, the text holds the block of every
\* slide of the document.
C6_AllOrNothing ==
    /\ pc = "raised" =>
          /\ ~returned
          /\ result = <<>>
          /\ \E cause \in Causes :
                error = <<"Error processing PowerPoint file: ", cause>>
    /\ pc = "done" =>
          /\ returned
          /\ error = <<>>
          /\ Len(text_content) = nslides
          /\ \A k \in 1..nslides : Occurs(Header(k), result)
    /\ pc \notin {"raised", "done"} => (~returned /\ error = <<>>)

\* a failure on a later slide, after an earlier slide's block was built
C6_Witness ==
    /\ pc = "raised"
    /\ Len(text_content) >= 1
    /\ Len(all_shape_infos) >= 1
    /\ i <= nslides

\* C8: for an index the slide does not supply and both layout and master
\* define, the candidates hold the layout's placeholder and none of the
\* master's; a master placeholder is a candidate only for an index that
\* neither the slide nor the layout covers.
C8_LayoutWins ==
    Backfilled =>
        /\ \A k \in (LayoutIdxs \cap MasterIdxs) \ SlideIdxs :
              /\ \E j \in CandidatesWithIdx(k) :
                    /\ all_shape_infos[j].src = "layout"
                    /\ \E m \in 1..Len(slide.layout) :
                          all_shape_infos[j].shape = slide.layout[m]
              /\ \A j \in CandidatesWithIdx(k) : all_shape_infos[j].src # "master"
        /\ \A j \in 1..Len(all_shape_infos) :
              all_shape_infos[j].src = "master" =>
                  all_shape_infos[j].shape.idx \notin SlideIdxs \cup LayoutIdxs

\* layout and master share an uncovered index, and the master still supplies
\* another one
C8_Witness ==
    /\ Backfilled
    /\ (LayoutIdxs \cap MasterIdxs) \ SlideIdxs # {}
    /\ \E j \in 1..Len(all_shape_infos) : all_shape_infos[j].src = "master"

SrcRank(src) == IF src = "slide" THEN 1 ELSE IF src = "layout" THEN 2 ELSE 3

\* C9: the sort is stable.  Records with equal absolute top and left keep the
\* order they had in slide records ++ layout additions ++ master additions,
\* in the sorted list and in the emitted lines.
C9_Stable ==
    /\ pc \in {"emit", "loop"} =>
          /\ \A j, k \in 1..Len(all_shape_infos) :
                j < k => /\ all_shape_infos[j].id < all_shape_infos[k].id
                         /\ SrcRank(all_shape_infos[j].src) <= SrcRank(all_shape_infos[k].src)
          /\ \A j, k \in 1..Len(sorted_shape_infos) :
                (/\ j < k
                 /\ sorted_shape_infos[j].top = sorted_shape_infos[k].top
                 /\ sorted_shape_infos[j].left = sorted_shape_infos[k].left)
                    => sorted_shape_infos[j].id < sorted_shape_infos[k].id
    /\ SlideEmitted =>
          \A j, k \in 1..Len(lines) :
              (/\ j < k
               /\ all_shape_infos[lines[j].id].top = all_shape_infos[lines[k].id].top
               /\ all_shape_infos[lines[j].id].left = all_shape_infos[lines[k].id].left)
                  => lines[j].id < lines[k].id

\* three lines from one position: a grouped slide shape, a layout addition and
\* a master addition
C9_Witness ==
    /\ SlideEmitted
    /\ \E a, b, c \in 1..Len(lines) :
          /\ a < b /\ b < c
          /\ all_shape_infos[lines[a].id].src = "slide"
          /\ all_shape_infos[lines[b].id].src = "layout"
          /\ all_shape_infos[lines[c].id].src = "master"
          /\ all_shape_infos[lines[a].id].top = all_shape_infos[lines[c].id].top
          /\ all_shape_infos[lines[a].id].left = all_shape_infos[lines[c].id].left
          /\ all_shape_infos[lines[b].id].top = all_shape_infos[lines[c].id].top
          /\ all_shape_infos[lines[b].id].left = all_shape_infos[lines[c].id].left

\* =========================================================================
\* Properties of the endpoints
\* =========================================================================

\* C7: once a request has finished, on whatever exit path, no file that this
\* request created (its saved upload, its rendered PDF) is left in the upload
\* folder.
C7_CleanupOnEveryExit ==
    \A r \in Requests :
        rpc[r] = "done" => \A path \in DOMAIN files : files[path].creator # r

\* the request has saved its upload and has not finished processing it
Unprocessed(r) == rpc[r] \in {"extract", "convert"}

\* C10: concurrent requests do not interfere.  Each request's processing reads
\* the content that the same request saved, and no step of another request
\* removes or overwrites the saved file of a request that has not finished
\* processing it.
C10_NoInterference ==
    [][ /\ \A r \in Requests : readFrom'[r] \in {0, r}
        /\ \A r \in Requests :
              (Unprocessed(r) /\ rpc'[r] = rpc[r]) =>
                  /\ Exists(filepath[r])
                  /\ files[filepath[r]].creator = r
                  /\ filepath[r] \in DOMAIN files'
                  /\ files'[filepath[r]] = files[filepath[r]] ]_vars

====
